---- MODULE Spec2Model ----
(***************************************************************************)
(* A model of torizoncore-builder's "union" sub-command                    *)
(* (src/tcbuilder/cli/union.py): the reconciliation of a change-set's      *)
(* ownership, modes and ACLs (set_acl_attributes and its helpers) and the  *)
(* staging and ordering of change-set directories (union,                  *)
(* check_and_append_dirs).                                                 *)
(*                                                                         *)
(* A path is a sequence of components; an absolute path starts with the    *)
(* component "/".  The filesystem fs is a function from the absolute paths *)
(* that exist to their entries.  A file mode is the integer the octal     *)
(* literal denotes (0o660 = 432).  A minimal POSIX ACL (user::, group::,   *)
(* other::) is the mode it encodes, so "the ACL of a path" is its mode.    *)
(***************************************************************************)
EXTENDS Integers, Sequences, FiniteSets, TLC

VARIABLES
    fs,                          \* the filesystem: absolute path -> entry
    fs0,                         \* the filesystem when union was called
    fs_pre,                      \* ... when set_acl_attributes was called
    scan_rev,                    \* whether directories list in reverse order
    changes_dirs,                \* union's argument: [given, dirs]
    extra_changes_dirs,          \* union's argument: [given, dirs]
    pc,                          \* position in union / set_acl_attributes
    ret,                         \* where set_acl_attributes returns to
    err,                         \* the exception that left union, or "none"
    changes_dirs_,               \* union's local list handed to the store
    subdir_i,                    \* default mode: index into Subdirs
    new_changes_dirs,            \* check_and_append_dirs: the list walked
    temp_dir,                    \* check_and_append_dirs: the staging root
    dir_i,                       \* check_and_append_dirs: loop index
    change_dir,                  \* set_acl_attributes: its argument
    walk_i,                      \* set_acl_attributes: first walk's index
    files_to_apply_tcattr_acl,   \* sequence of <<base_dir, path>>
    files_to_apply_default_acl,  \* sequence of paths
    bases_left,                  \* apply_tcattr_acl: base dirs not yet done
    file_i,                      \* apply_default_acl: loop index
    log,                         \* the operations issued, in order
    failed_at,                   \* length of log when a call failed, or 0
    store_calls,                 \* the lists handed to ub.union_changes
    commit,                      \* what the store's merge returned
    saa_calls,                   \* the arguments of set_acl_attributes' calls
    run,                         \* which invocation of union this is
    output_file,                 \* set_output_ownership: its argument
    set_parents,                 \* set_output_ownership: its argument
    workdir_uid,                 \* set_output_ownership: owner of /workdir
    workdir_gid,                 \* set_output_ownership: group of /workdir
    examine,                     \* set_output_ownership: the paths in order
    examine_i,                   \* set_output_ownership: index into examine
    retval,                      \* what the function under study returned
    hostname,                    \* resolve_hostname: its argument
    mdns_source,                 \* resolve_hostname: its argument
    local_ips,                   \* get_all_local_ip_addresses()
    ip_i,                        \* resolve_hostname: index into local_ips
    containers,                  \* what the Docker daemon lists
    env_set,                     \* whether env_var is in os.environ
    listing,                     \* get_own_container_id: the list iterated
    cont_i,                      \* get_own_container_id: index into listing
    container_id,                \* get_own_container_id: its local
    args_changes_dir,            \* isolate_subcommand: args.changes_dir
    iso_changes_dir,             \* isolate_subcommand: changes_dir
    ans                          \* isolate_subcommand: the answer typed

vars == <<fs, fs0, fs_pre, scan_rev, failed_at, changes_dirs, extra_changes_dirs, pc, ret, err,
          changes_dirs_, subdir_i, new_changes_dirs, temp_dir, dir_i,
          change_dir, walk_i, files_to_apply_tcattr_acl,
          files_to_apply_default_acl, bases_left, file_i, log,
          store_calls, commit, saa_calls, run, output_file, set_parents,
          workdir_uid, workdir_gid, examine, examine_i, retval, hostname,
          mdns_source, local_ips, ip_i, containers, env_set, listing, cont_i,
          container_id, args_changes_dir, iso_changes_dir, ans>>

(***************************************************************************)
(* Bounds of the model.                                                    *)
(***************************************************************************)
\* the longest .tcattr file, in stanzas
MaxStanzas == 2
\* the longest changes_dirs / extra_changes_dirs list
MaxDirs == 2
\* the number of invocations of union in a row
MaxRuns == 2
\* the most network interfaces get_all_local_ip_addresses() reports
MaxIfaces == 2
\* the most containers the Docker daemon lists
MaxContainers == 3

(***************************************************************************)
(* Program constants.                                                      *)
(***************************************************************************)
root_uid == 0
root_gid == 0
default_file_mode == 432
default_dir_mode == 493
default_exec_mode == 504
\* 0o111: the three executable bits
exec_bits == 73

Subdirs == <<"changes", "splash", "dt", "kernel">>

(***************************************************************************)
(* Paths (os.path).                                                        *)
(***************************************************************************)
IsAbs(p) == Len(p) > 0 /\ p[1] = "/"

\* os.path.join(a, b): an absolute b discards a
PathJoin(a, b) == IF IsAbs(b) THEN b ELSE a \o b

\* f"{a}/{b}": plain concatenation; the kernel reads "a//b" as "a/b"
FStringJoin(a, b) == a \o (IF IsAbs(b) THEN Tail(b) ELSE b)

\* the working directory of the process
Cwd == <<"/", "work">>

\* os.path.abspath(p)
AbsPath(p) == IF IsAbs(p) THEN p ELSE Cwd \o p

IsPrefix(a, b) == Len(a) <= Len(b) /\ SubSeq(b, 1, Len(a)) = a

\* q lies strictly below the directory d
Under(d, q) == IsPrefix(d, q) /\ Len(q) > Len(d)

(***************************************************************************)
(* Filesystem entries and the os / os.path calls the code makes.           *)
(***************************************************************************)
MkEntry(kind, uid, mode, text, data) ==
    [kind |-> kind, uid |-> uid, gid |-> uid, mode |-> mode,
     text |-> text, data |-> data]

Exists(f, p) == AbsPath(p) \in DOMAIN f
IsDir(f, p) == Exists(f, p) /\ f[AbsPath(p)].kind = "dir"
IsLink(f, p) == Exists(f, p) /\ f[AbsPath(p)].kind = "link"

\* the entries of directory d in the order os.scandir yields them, which
\* is the filesystem's choice: NameOrder or its reverse
NameOrder == <<"b", "d", "f", ".tcattr", "l", "sub", "x">>
ScanOrder ==
    IF scan_rev THEN [j \in 1..Len(NameOrder) |-> NameOrder[Len(NameOrder) + 1 - j]]
    ELSE NameOrder
NamesIn(f, d) == {q[Len(q)] : q \in {r \in DOMAIN f : Len(r) = Len(d) + 1 /\ IsPrefix(d, r)}}
ListDir(f, d) == SelectSeq(ScanOrder, LAMBDA n : n \in NamesIn(f, d))

\* os.walk's dirnames and filenames of base_dir
DirNames(f, d) == SelectSeq(ListDir(f, d), LAMBDA n : IsDir(f, d \o <<n>>))
FileNames(f, d) == SelectSeq(ListDir(f, d), LAMBDA n : ~IsDir(f, d \o <<n>>))

RECURSIVE WalkDirs(_, _)
RECURSIVE WalkEach(_, _, _)
\* os.walk(top): the directories visited, top-down; links are not followed
WalkDirs(f, top) ==
    IF ~IsDir(f, top) THEN <<>>
    ELSE <<top>> \o WalkEach(f, top, DirNames(f, top))
WalkEach(f, d, names) ==
    IF names = <<>> THEN <<>>
    ELSE WalkDirs(f, d \o <<Head(names)>>) \o WalkEach(f, d, Tail(names))

RECURSIVE BitAnd(_, _)
\* x & y on naturals
BitAnd(x, y) ==
    IF x = 0 \/ y = 0 THEN 0
    ELSE (IF x % 2 = 1 /\ y % 2 = 1 THEN 1 ELSE 0) + 2 * BitAnd(x \div 2, y \div 2)

Range(s) == {s[j] : j \in 1..Len(s)}

LogEntry(op, path, src, mode) ==
    [op |-> op, path |-> path, src |-> src, mode |-> mode]

SetEntry(f, p, e) == [q \in (DOMAIN f) \cup {p} |-> IF q = p THEN e ELSE f[q]]

(***************************************************************************)
(* The .tcattr sidecar: a text file, here the sequence of its lines.  A    *)
(* line is blank, the marker "# file: <p>", or an ACL description (the     *)
(* user::/group::/other:: entries, which encode the mode v).               *)
(***************************************************************************)
Blank == [t |-> "blank", p |-> <<>>, v |-> 0]
FileLine(p) == [t |-> "file", p |-> p, v |-> 0]
AclLine(v) == [t |-> "acl", p |-> <<>>, v |-> v]

\* a stanza as getfacl writes it, and one that lacks its marker line
Stanza(p, v) == <<FileLine(p), AclLine(v), Blank>>
BadStanza(v) == <<AclLine(v), Blank>>

\* what is left of a line when '# file: ' is replaced by '': the path of a
\* marker line, the line's own text otherwise (no file has that name)
LineAsName(l) == IF l.t = "file" THEN l.p ELSE <<"user::">>

TcattrPath(base_dir) == PathJoin(base_dir, <<".tcattr">>)

RECURSIVE SplitStanzas(_, _, _)
\* ''.join(tcattr).split(field_separator): every blank line became the
\* separator, so n blank lines give n + 1 pieces (some may be empty)
SplitStanzas(lines, j, cur) ==
    IF j > Len(lines) THEN <<cur>>
    ELSE IF lines[j].t = "blank"
         THEN <<cur>> \o SplitStanzas(lines, j + 1, <<>>)
         ELSE SplitStanzas(lines, j + 1, Append(cur, lines[j]))

\* file_attr.split('\n')[0].replace('# file: ', '')
StanzaFilename(file_attr) ==
    IF file_attr = <<>> THEN <<>> ELSE LineAsName(file_attr[1])

\* remove_links_from_tcattr without its os.path.islink test
MutKeptStanzasAll(f, base_dir, lines) == SplitStanzas(lines, 1, <<>>)

\* the pieces remove_links_from_tcattr writes back
KeptStanzas(f, base_dir, lines) ==
    SelectSeq(SplitStanzas(lines, 1, <<>>),
              LAMBDA file_attr :
                  ~IsLink(f, PathJoin(base_dir, StanzaFilename(file_attr))))

RECURSIVE MutWriteNoNewline(_)
\* fd_tcattr_tmp.write(file_attr) for each piece kept
MutWriteNoNewline(pieces) ==
    IF pieces = <<>> THEN <<>>
    ELSE Head(pieces) \o MutWriteNoNewline(Tail(pieces))

RECURSIVE WriteStanzas(_)
\* fd_tcattr_tmp.write(file_attr + '\n') for each piece kept
WriteStanzas(pieces) ==
    IF pieces = <<>> THEN <<>>
    ELSE Head(pieces) \o <<Blank>> \o WriteStanzas(Tail(pieces))

\* remove_links_from_tcattr(base_dir): the new .tcattr is a file the
\* process created (its owner, mode 0o644 under the usual umask)
remove_links_from_tcattr(f, base_dir) ==
    LET old == f[TcattrPath(base_dir)]
        new == WriteStanzas(KeptStanzas(f, base_dir, old.text))
    IN  SetEntry(f, TcattrPath(base_dir),
                 MkEntry("file", root_uid, 420, new, old.data))

\* the list set_acl_attributes reads back from the rewritten sidecar
TcattrFiles(f, base_dir) ==
    LET lines == f[TcattrPath(base_dir)].text
        marked == SelectSeq(lines, LAMBDA l : l.t = "file")
    IN  [j \in 1..Len(marked) |-> <<base_dir, marked[j].p>>]

(***************************************************************************)
(* setfacl --restore=<file>, run in base_dir (an external tool): stanza by *)
(* stanza it sets the ACL of the path named by the marker; ACL entries     *)
(* with no marker before them abort the run, a missing path is reported    *)
(* and the run goes on; either way the exit status is non-zero.            *)
(***************************************************************************)
RECURSIVE SetfaclRestore(_, _, _, _, _, _, _)
SetfaclRestore(f, base_dir, lines, j, cur, applied, bad) ==
    IF j > Len(lines) THEN [fs |-> f, applied |-> applied, failed |-> bad]
    ELSE LET l == lines[j] IN
         IF l.t = "blank"
         THEN SetfaclRestore(f, base_dir, lines, j + 1, <<>>, applied, bad)
         ELSE IF l.t = "file"
         THEN SetfaclRestore(f, base_dir, lines, j + 1, <<l.p>>, applied, bad)
         ELSE IF cur = <<>>
         THEN [fs |-> f, applied |-> applied, failed |-> TRUE]
         ELSE LET target == AbsPath(PathJoin(base_dir, cur[1])) IN
              IF ~Exists(f, target)
              THEN SetfaclRestore(f, base_dir, lines, j + 1, cur, applied, TRUE)
              ELSE IF IsLink(f, target)
              THEN SetfaclRestore(f, base_dir, lines, j + 1, cur,
                                  Append(applied, target), bad)
              ELSE SetfaclRestore(SetEntry(f, target, [f[target] EXCEPT !.mode = l.v]),
                                  base_dir, lines, j + 1, cur,
                                  Append(applied, target), bad)

(***************************************************************************)
(* set_file_mode and apply_default_acl.                                    *)
(***************************************************************************)
\* os.chown(filename, uid, gid, follow_symlinks=False)
Chown(f, p, uid, gid) ==
    SetEntry(f, AbsPath(p), [f[AbsPath(p)] EXCEPT !.uid = uid, !.gid = gid])

\* os.chmod(filename, mode)
Chmod(f, p, mode) == SetEntry(f, AbsPath(p), [f[AbsPath(p)] EXCEPT !.mode = mode])

\* the system calls set_file_mode(filename, mode) issues, in order
set_file_mode(f, filename, mode) ==
    <<LogEntry("chown", filename, <<>>, 0)>> \o
    (IF ~IsLink(f, filename)
     THEN <<LogEntry("chmod", filename, <<>>, mode)>>
     ELSE <<>>)

ApplyOp(f, e) ==
    IF e.op = "chown" THEN Chown(f, e.path, root_uid, root_gid)
    ELSE Chmod(f, e.path, e.mode)

RECURSIVE ApplyOps(_, _, _)
\* the filesystem after the first n of the calls in ops
ApplyOps(f, ops, n) ==
    IF n = 0 THEN f ELSE ApplyOp(ApplyOps(f, ops, n - 1), ops[n])

\* apply_default_acl without its os.path.isdir branch
MutDefaultModeNoDir(f, filename) ==
    IF BitAnd(f[AbsPath(filename)].mode, exec_bits) # 0
    THEN default_exec_mode
    ELSE default_file_mode

\* apply_default_acl with the file and executable modes exchanged
MutDefaultModeSwapped(f, filename) ==
    IF IsDir(f, filename) THEN default_dir_mode
    ELSE IF BitAnd(f[AbsPath(filename)].mode, exec_bits) # 0
         THEN default_file_mode
         ELSE default_exec_mode

\* the mode apply_default_acl chooses for filename
DefaultMode(f, filename) ==
    IF IsDir(f, filename) THEN default_dir_mode
    ELSE IF BitAnd(f[AbsPath(filename)].mode, exec_bits) # 0
         THEN default_exec_mode
         ELSE default_file_mode

\* the second walk of set_acl_attributes: every entry that is not a
\* .tcattr and is not named in files_to_apply_tcattr_acl
DefaultFilesIn(f, base_dir, tcattr_files) ==
    SelectSeq([j \in 1..Len(DirNames(f, base_dir) \o FileNames(f, base_dir)) |->
                  (DirNames(f, base_dir) \o FileNames(f, base_dir))[j]],
              LAMBDA filename :
                  /\ filename # ".tcattr"
                  /\ PathJoin(base_dir, <<filename>>) \notin
                        {PathJoin(t[1], t[2]) : t \in Range(tcattr_files)})

RECURSIVE DefaultFiles(_, _, _)
DefaultFiles(f, dirs, tcattr_files) ==
    IF dirs = <<>> THEN <<>>
    ELSE LET base_dir == Head(dirs)
             names == DefaultFilesIn(f, base_dir, tcattr_files)
         IN  [j \in 1..Len(names) |-> PathJoin(base_dir, <<names[j]>>)]
             \o DefaultFiles(f, Tail(dirs), tcattr_files)

(***************************************************************************)
(* The shell and os calls of check_and_append_dirs.                        *)
(***************************************************************************)
\* os.makedirs(p): p and the parents of p that are missing
MakeDirs(f, p) ==
    LET made == {SubSeq(p, 1, n) : n \in 2..Len(p)} \ DOMAIN f
    IN  [q \in (DOMAIN f) \cup made |->
            IF q \in made THEN MkEntry("dir", root_uid, default_dir_mode, <<>>, "")
            ELSE f[q]]

\* where cp puts the entry q of src
CopyTarget(src, dst, q) == dst \o SubSeq(q, Len(src) + 1, Len(q))

\* the mode of a copy: that of its source less the umask 0o022 (a link
\* has no mode of its own)
CopyMode(e) == IF e.kind = "link" THEN e.mode ELSE BitAnd(e.mode, 493)

\* cp -r src/. dst, for the entries in some: a copy is the process's own
\* file (cp is run without -p) with the content of its source
CopyEntries(f, src, dst, some) ==
    LET new == {CopyTarget(src, dst, q) : q \in some}
    IN  [r \in (DOMAIN f) \cup new |->
            IF r \in new
            THEN LET q == CHOOSE q \in some : CopyTarget(src, dst, q) = r
                 IN  [f[q] EXCEPT !.uid = root_uid, !.gid = root_gid,
                                  !.mode = CopyMode(f[q])]
            ELSE f[r]]

EntriesUnder(f, d) == {q \in DOMAIN f : Under(d, q)}

(***************************************************************************)
(* The store (tcbuilder.backend.union.union_changes): it merges the        *)
(* directories in order, a later directory overriding an earlier one path  *)
(* for path.  Here the merged tree is the content of each relative path.   *)
(***************************************************************************)
MergedPaths == {<<"f">>, <<"d", "b">>}

union_changes(f, dirs) ==
    [rel \in MergedPaths |->
        LET has == {j \in 1..Len(dirs) : Exists(f, dirs[j] \o rel)}
        IN  IF has = {} THEN "absent"
            ELSE f[dirs[CHOOSE j \in has : \A n \in has : n <= j] \o rel].data]

(***************************************************************************)
(* union(changes_dirs, extra_changes_dirs, storage_dir, ...)               *)
(***************************************************************************)
\* os.path.abspath(storage_dir)
storage_dir_ == <<"/", "storage">>
TempDirPrimary == <<"/", "tmp", "changes_dirs">>
TempDirExtra == <<"/", "tmp", "extra_changes_dirs">>

unionLocals == <<changes_dirs_, subdir_i, new_changes_dirs, temp_dir, dir_i>>
saaLocals == <<fs_pre, change_dir, walk_i, files_to_apply_tcattr_acl,
               files_to_apply_default_acl, bases_left, file_i, saa_calls>>
\* the state of set_output_ownership (src/tcbuilder/backend/common.py)
ownLocals == <<output_file, set_parents, workdir_uid, workdir_gid, examine, examine_i>>
\* the state of resolve_hostname, get_own_container_id
\* (src/tcbuilder/backend/common.py) and isolate_subcommand
\* (src/tcbuilder/cli/isolate.py)
rhLocals == <<hostname, mdns_source, local_ips, ip_i>>
cidLocals == <<containers, env_set, listing, cont_i, container_id>>
isoLocals == <<args_changes_dir, iso_changes_dir, ans>>
restLocals == <<retval, rhLocals, cidLocals, isoLocals>>
\* what no step of one invocation of union changes
inputs == <<fs0, scan_rev, changes_dirs, extra_changes_dirs, run, ownLocals, restLocals>>

\* an exception nothing catches leaves union
Raise(e) == pc' = "raised" /\ err' = e

\* the call set_acl_attributes(d) on the filesystem f, returning to r
CallSetAcl(f, d, r) ==
    /\ pc' = "saa_walk1"
    /\ ret' = r
    /\ fs_pre' = f
    /\ saa_calls' = Append(saa_calls, d)
    /\ change_dir' = d
    /\ walk_i' = 1
    /\ files_to_apply_tcattr_acl' = <<>>
    /\ files_to_apply_default_acl' = <<>>
    /\ bases_left' = {}
    /\ file_i' = 1

\* union without its check of the storage directory
MutStorageNeverMissing(f) == FALSE

\* lines 172-178: the storage directory must exist
StorageMissing(f) == ~Exists(f, storage_dir_)

UnionStart ==
    /\ pc = "start"
    /\ IF StorageMissing(fs)
       THEN Raise("PathNotExistError") /\ UNCHANGED changes_dirs_
       ELSE /\ changes_dirs_' = <<>>
            /\ pc' = IF changes_dirs.given THEN "mkdir_temp" ELSE "default_loop"
            /\ err' = err
    /\ UNCHANGED <<fs, inputs, failed_at, ret, subdir_i, new_changes_dirs, temp_dir, dir_i,
                   saaLocals, log, store_calls, commit>>

\* set_acl_attributes called for every conventional directory
MutReconcileAll(subdir) == TRUE

\* line 183: which of the conventional directories is reconciled
ReconciledSubdir(subdir) == subdir = "changes"

\* lines 180-185, one subdir
DefaultLoop ==
    /\ pc = "default_loop"
    /\ subdir_i <= Len(Subdirs)
    /\ LET subdir == Subdirs[subdir_i]
           changed_dir == PathJoin(storage_dir_, <<subdir>>)
       IN  IF IsDir(fs, changed_dir)
           THEN IF ReconciledSubdir(subdir)
                THEN CallSetAcl(fs, changed_dir, "default_append") /\ UNCHANGED subdir_i
                ELSE /\ pc' = "default_append"
                     /\ UNCHANGED <<ret, saaLocals, subdir_i>>
           ELSE /\ subdir_i' = subdir_i + 1
                /\ UNCHANGED <<pc, ret, saaLocals>>
    /\ UNCHANGED <<fs, inputs, failed_at, err, changes_dirs_, new_changes_dirs, temp_dir,
                   dir_i, log, store_calls, commit>>

\* list.insert(0, d) in place of list.append(d)
MutPrependDir(dirs, d) == <<d>> \o dirs

\* list.append
AppendDir(dirs, d) == Append(dirs, d)

\* line 185
DefaultAppend ==
    /\ pc = "default_append"
    /\ changes_dirs_' = AppendDir(changes_dirs_, PathJoin(storage_dir_, <<Subdirs[subdir_i]>>))
    /\ subdir_i' = subdir_i + 1
    /\ pc' = "default_loop"
    /\ UNCHANGED <<fs, inputs, failed_at, ret, err, new_changes_dirs, temp_dir, dir_i,
                   saaLocals, log, store_calls, commit>>

DefaultDone ==
    /\ pc = "default_loop"
    /\ subdir_i > Len(Subdirs)
    /\ pc' = "extra"
    /\ UNCHANGED <<fs, inputs, failed_at, ret, err, unionLocals, saaLocals, log,
                   store_calls, commit>>

\* os.mkdir(d) and the call check_and_append_dirs(changes_dirs_, dirs, d)
MkdirAndCall(d, dirs) ==
    IF Exists(fs, d)
    THEN /\ Raise("FileExistsError")
         /\ UNCHANGED <<fs, log, new_changes_dirs, temp_dir, dir_i>>
    ELSE /\ fs' = SetEntry(fs, d, MkEntry("dir", root_uid, default_dir_mode, <<>>, ""))
         /\ log' = Append(log, LogEntry("mkdir", d, <<>>, 0))
         /\ new_changes_dirs' = dirs
         /\ temp_dir' = d
         /\ dir_i' = 1
         /\ pc' = "caad_loop"
         /\ err' = err

\* lines 187-189
MkdirTemp ==
    /\ pc = "mkdir_temp"
    /\ MkdirAndCall(TempDirPrimary, changes_dirs.dirs)
    /\ UNCHANGED <<inputs, failed_at, ret, changes_dirs_, subdir_i, saaLocals, store_calls, commit>>

\* lines 191-194
Extra ==
    /\ pc = "extra"
    /\ IF extra_changes_dirs.given /\ extra_changes_dirs.dirs # <<>>
       THEN MkdirAndCall(TempDirExtra, extra_changes_dirs.dirs)
       ELSE /\ pc' = "store"
            /\ UNCHANGED <<fs, log, err, new_changes_dirs, temp_dir, dir_i>>
    /\ UNCHANGED <<inputs, failed_at, ret, changes_dirs_, subdir_i, saaLocals, store_calls, commit>>

(***************************************************************************)
(* check_and_append_dirs(changes_dirs, new_changes_dirs, temp_dir)         *)
(***************************************************************************)
\* lines 20-24: the existence check and os.makedirs of one directory
CaadCheck ==
    /\ pc = "caad_loop"
    /\ dir_i <= Len(new_changes_dirs)
    /\ LET changes_dir == new_changes_dirs[dir_i]
           staged == FStringJoin(temp_dir, changes_dir)
       IN  IF ~Exists(fs, changes_dir)
           THEN Raise("PathNotExistError") /\ UNCHANGED <<fs, log>>
           ELSE IF Exists(fs, staged)
           THEN Raise("FileExistsError") /\ UNCHANGED <<fs, log>>
           ELSE /\ fs' = MakeDirs(fs, staged)
                /\ log' = Append(log, LogEntry("makedirs", staged, <<>>, 0))
                /\ pc' = "caad_cp"
                /\ err' = err
    /\ UNCHANGED <<inputs, failed_at, ret, unionLocals, saaLocals, store_calls, commit>>

\* line 29: the directory that is reconciled and handed to the store
TempChangeDir(tmp, changes_dir) == PathJoin(tmp, changes_dir)

\* the exit status of cp is ignored
MutUncheckedOutput(failed) == FALSE

\* lines 27-28: subprocess.check_output raises on a non-zero exit status
check_output(failed) == failed

\* lines 26-30: the copy, then the call of set_acl_attributes; cp may fail
\* having copied only some of the entries (a parent before its children)
CaadCopy ==
    /\ pc = "caad_cp"
    /\ LET changes_dir == new_changes_dirs[dir_i]
           src == AbsPath(changes_dir)
           staged == FStringJoin(temp_dir, changes_dir)
       IN  \E some \in SUBSET EntriesUnder(fs, src) :
              LET copied == CopyEntries(fs, src, staged, some)
                  failed == some # EntriesUnder(fs, src)
              IN  /\ \A q \in some : Len(q) > Len(src) + 1
                                        => SubSeq(q, 1, Len(q) - 1) \in some
                  /\ fs' = copied
                  /\ log' = Append(log, LogEntry("cp", staged, src, 0))
                  /\ failed_at' = IF failed THEN Len(log') ELSE failed_at
                  /\ IF check_output(failed)
                     THEN Raise("CalledProcessError") /\ UNCHANGED <<ret, saaLocals>>
                     ELSE /\ CallSetAcl(copied, TempChangeDir(temp_dir, changes_dir),
                                        "caad_append")
                          /\ err' = err
    /\ UNCHANGED <<inputs, unionLocals, store_calls, commit>>

\* line 31
CaadAppend ==
    /\ pc = "caad_append"
    /\ changes_dirs_' = AppendDir(changes_dirs_,
                            AbsPath(TempChangeDir(temp_dir, new_changes_dirs[dir_i])))
    /\ dir_i' = dir_i + 1
    /\ pc' = "caad_loop"
    /\ UNCHANGED <<fs, inputs, failed_at, ret, err, subdir_i, new_changes_dirs, temp_dir,
                   saaLocals, log, store_calls, commit>>

\* the loop ends: back in union, after line 189 or after line 194
CaadReturn ==
    /\ pc = "caad_loop"
    /\ dir_i > Len(new_changes_dirs)
    /\ pc' = IF temp_dir = TempDirPrimary THEN "extra" ELSE "store"
    /\ UNCHANGED <<fs, inputs, failed_at, ret, err, unionLocals, saaLocals, log,
                   store_calls, commit>>

\* the call of the store is made again when it fails
MutRetryStore == "store"

\* lines 199-200: nothing catches what ub.union_changes raises
StoreErrorPc == "raised"

\* lines 196-202: the one call of the store
Store ==
    /\ pc = "store"
    /\ store_calls' = Append(store_calls, changes_dirs_)
    /\ \/ /\ commit' = union_changes(fs, changes_dirs_)
          /\ pc' = "done"
          /\ err' = err
       \/ /\ pc' = StoreErrorPc
          /\ err' = "StoreError"
          /\ commit' = commit
    /\ UNCHANGED <<fs, inputs, failed_at, ret, unionLocals, saaLocals, log>>

(***************************************************************************)
(* set_acl_attributes(change_dir)                                          *)
(***************************************************************************)
\* lines 145-147: a directory of the first walk that holds no .tcattr
WalkSkip ==
    /\ pc = "saa_walk1"
    /\ walk_i <= Len(WalkDirs(fs, change_dir))
    /\ ".tcattr" \notin Range(FileNames(fs, WalkDirs(fs, change_dir)[walk_i]))
    /\ walk_i' = walk_i + 1
    /\ UNCHANGED <<fs, inputs, fs_pre, saa_calls, failed_at, pc, ret, err, unionLocals, change_dir,
                   files_to_apply_tcattr_acl, files_to_apply_default_acl,
                   bases_left, file_i, log, store_calls, commit>>

\* lines 150-153: what the loop does with the list read from one sidecar
KeepTcattrFiles(old, read) == read

\* lines 148-153: a directory of the first walk that holds a .tcattr
WalkTcattr ==
    /\ pc = "saa_walk1"
    /\ walk_i <= Len(WalkDirs(fs, change_dir))
    /\ LET base_dir == WalkDirs(fs, change_dir)[walk_i]
           rewritten == remove_links_from_tcattr(fs, base_dir)
       IN  /\ ".tcattr" \in Range(FileNames(fs, base_dir))
           /\ fs' = rewritten
           /\ log' = Append(log, LogEntry("rewrite", TcattrPath(base_dir), <<>>, 0))
           /\ files_to_apply_tcattr_acl' =
                  KeepTcattrFiles(files_to_apply_tcattr_acl,
                                  TcattrFiles(rewritten, base_dir))
    /\ walk_i' = walk_i + 1
    /\ UNCHANGED <<inputs, fs_pre, saa_calls, failed_at, pc, ret, err, unionLocals, change_dir,
                   files_to_apply_default_acl, bases_left, file_i,
                   store_calls, commit>>

\* lines 155-163: the second walk, and the call of apply_tcattr_acl
WalkDefault ==
    /\ pc = "saa_walk1"
    /\ walk_i > Len(WalkDirs(fs, change_dir))
    /\ files_to_apply_default_acl' =
           DefaultFiles(fs, WalkDirs(fs, change_dir), files_to_apply_tcattr_acl)
    /\ bases_left' = {tcattr[1] : tcattr \in Range(files_to_apply_tcattr_acl)}
    /\ pc' = "apply_tcattr"
    /\ UNCHANGED <<fs, inputs, fs_pre, saa_calls, failed_at, ret, err, unionLocals, change_dir, walk_i,
                   files_to_apply_tcattr_acl, file_i, log, store_calls, commit>>

\* the log of one setfacl run: the run, then each path whose ACL it set
SetfaclLog(tcattr_basedir, applied) ==
    <<LogEntry("setfacl", tcattr_basedir, <<>>, 0)>> \o
    [j \in 1..Len(applied) |-> LogEntry("restore", applied[j], <<>>, 0)]

\* subprocess.run(..., check=False): the exit status is ignored
MutUncheckedRun(failed) == FALSE

\* subprocess.run(..., check=True): a non-zero exit status raises
CheckedRun(failed) == failed

\* lines 44-47: setfacl --restore for one base directory; the run may be
\* cut short by the environment after any number of lines
apply_tcattr_acl ==
    /\ pc = "apply_tcattr"
    /\ \E tcattr_basedir \in bases_left :
         LET lines == fs[TcattrPath(tcattr_basedir)].text IN
         \E cut \in 0..Len(lines) :
           LET r == SetfaclRestore(fs, tcattr_basedir, SubSeq(lines, 1, cut),
                                   1, <<>>, <<>>, cut < Len(lines))
           IN  /\ fs' = r.fs
               /\ log' = log \o SetfaclLog(tcattr_basedir, r.applied)
               /\ failed_at' = IF r.failed THEN Len(log') ELSE failed_at
               /\ IF CheckedRun(r.failed)
                  THEN Raise("CalledProcessError") /\ UNCHANGED bases_left
                  ELSE /\ bases_left' = bases_left \ {tcattr_basedir}
                       /\ UNCHANGED <<pc, err>>
    /\ UNCHANGED <<inputs, fs_pre, saa_calls, ret, unionLocals, change_dir, walk_i,
                   files_to_apply_tcattr_acl, files_to_apply_default_acl,
                   file_i, store_calls, commit>>

\* line 164: apply_tcattr_acl returned, apply_default_acl is called
apply_tcattr_acl_done ==
    /\ pc = "apply_tcattr"
    /\ bases_left = {}
    /\ pc' = "apply_default"
    /\ file_i' = 1
    /\ UNCHANGED <<fs, inputs, fs_pre, saa_calls, failed_at, ret, err, unionLocals, change_dir, walk_i,
                   files_to_apply_tcattr_acl, files_to_apply_default_acl,
                   bases_left, log, store_calls, commit>>

\* lines 85-94: one file of apply_default_acl; either every call of
\* set_file_mode succeeds, or call number n fails and raises
apply_default_acl ==
    /\ pc = "apply_default"
    /\ file_i <= Len(files_to_apply_default_acl)
    /\ LET filename == files_to_apply_default_acl[file_i]
           ops == set_file_mode(fs, filename, DefaultMode(fs, filename))
       IN  \/ /\ fs' = ApplyOps(fs, ops, Len(ops))
              /\ log' = log \o ops
              /\ file_i' = file_i + 1
              /\ UNCHANGED <<pc, err, failed_at>>
           \/ \E n \in 1..Len(ops) :
                 /\ fs' = ApplyOps(fs, ops, n - 1)
                 /\ log' = log \o SubSeq(ops, 1, n)
                 /\ failed_at' = Len(log')
                 /\ Raise("OSError")
                 /\ UNCHANGED file_i
    /\ UNCHANGED <<inputs, fs_pre, saa_calls, ret, unionLocals, change_dir, walk_i,
                   files_to_apply_tcattr_acl, files_to_apply_default_acl,
                   bases_left, store_calls, commit>>

\* set_acl_attributes returns to its caller
SetAclReturn ==
    /\ pc = "apply_default"
    /\ file_i > Len(files_to_apply_default_acl)
    /\ pc' = ret
    /\ UNCHANGED <<fs, inputs, failed_at, ret, err, unionLocals, saaLocals, log,
                   store_calls, commit>>

(***************************************************************************)
(* The calls of union that are explored.                                   *)
(***************************************************************************)
EmptyFs == [q \in {} |-> 0]

\* what exists on any machine
BaseFs == [q \in {<<"/", "tmp">>, Cwd} |->
              MkEntry("dir", root_uid, default_dir_mode, <<>>, "")]

StorageFs == (storage_dir_ :> MkEntry("dir", 1000, 493, <<>>, ""))

UserDir == MkEntry("dir", 1000, 509, <<>>, "")
UserFile(mode, data) == MkEntry("file", 1000, mode, <<>>, data)
UserLink(data) == MkEntry("link", 1000, 511, <<>>, data)
UserSidecar(text) == MkEntry("file", 1000, 420, text, "")

\* a change-set of one file f (mode 0o664), with or without a sidecar
\* that records it
SmallTree(d, data, sidecar) ==
    (d :> UserDir) @@ (d \o <<"f">> :> UserFile(436, data)) @@
    (IF sidecar THEN (d \o <<".tcattr">> :> UserSidecar(Stanza(<<"f">>, 384)))
     ELSE EmptyFs)

RECURSIVE Texts(_, _)
\* the sidecar texts of at most n stanzas drawn from S
Texts(S, n) ==
    IF n = 0 THEN {<<>>}
    ELSE Texts(S, n - 1) \cup {s \o t : s \in S, t \in Texts(S, n - 1)}

\* none or one sidecar with a text of T
Sidecars(T) == {<<>>} \cup {<<t>> : t \in T}

RootStanzas == {Stanza(<<"f">>, 384), Stanza(<<"d", "b">>, 416), BadStanza(384)}
SubStanzas == {Stanza(<<"b">>, 416), BadStanza(384)}

\* the change-set f, d/b with sidecars in the root and in d
RichTree(c, ef, eb, rt, st) ==
    (c :> UserDir) @@ (c \o <<"f">> :> ef) @@ (c \o <<"d">> :> UserDir) @@
    (c \o <<"d", "b">> :> eb) @@
    (IF rt = <<>> THEN EmptyFs ELSE (c \o <<".tcattr">> :> UserSidecar(rt[1]))) @@
    (IF st = <<>> THEN EmptyFs ELSE (c \o <<"d", ".tcattr">> :> UserSidecar(st[1])))

RelDir == <<"present">>
AbsDir == <<"/", "abs">>
MissingDir == <<"missing">>
DirNamesGiven == {RelDir, AbsDir, MissingDir}

RECURSIVE DirLists(_)
DirLists(n) ==
    IF n = 0 THEN {<<>>}
    ELSE DirLists(n - 1) \cup {Append(l, d) : l \in DirLists(n - 1), d \in DirNamesGiven}

None == [given |-> FALSE, dirs |-> <<>>]
Given(l) == [given |-> TRUE, dirs |-> l]
DirArgs == {None} \cup {Given(l) : l \in DirLists(MaxDirs)}

\* the caller's directories that exist
CallerFs(sidecar) ==
    SmallTree(AbsPath(RelDir), "present", sidecar) @@ SmallTree(AbsDir, "abs", sidecar)

RECURSIVE SubdirFs(_, _, _)
SubdirFs(present, sidecar, n) ==
    IF n = 0 THEN EmptyFs
    ELSE (IF n \in present
          THEN SmallTree(storage_dir_ \o <<Subdirs[n]>>, Subdirs[n], sidecar)
          ELSE EmptyFs) @@ SubdirFs(present, sidecar, n - 1)

\* default mode on a change-set with files, links and up to two sidecars
InitRich ==
    /\ changes_dirs = None
    /\ extra_changes_dirs = None
    /\ \E ef \in {UserFile(420, "changes"), UserFile(488, "changes"),
                    UserLink("changes")},
          eb \in {UserFile(420, "b"), UserLink("b")},
          rt \in Sidecars(Texts(RootStanzas, MaxStanzas)),
          st \in Sidecars(Texts(SubStanzas, MaxStanzas)) :
         fs = BaseFs @@ StorageFs @@
              RichTree(storage_dir_ \o <<"changes">>, ef, eb, rt, st)

\* default mode with any of the conventional directories
InitDefault ==
    /\ changes_dirs = None
    /\ extra_changes_dirs \in DirArgs
    /\ \E present \in SUBSET (1..Len(Subdirs)), sidecar \in BOOLEAN :
         fs = BaseFs @@ StorageFs @@ CallerFs(sidecar) @@
              SubdirFs(present, sidecar, Len(Subdirs))

\* manual mode
InitManual ==
    /\ changes_dirs \in DirArgs \ {None}
    /\ extra_changes_dirs \in DirArgs
    /\ \E sidecar \in BOOLEAN :
         fs = BaseFs @@ StorageFs @@ CallerFs(sidecar)

\* the storage directory is missing
InitNoStorage ==
    /\ changes_dirs \in DirArgs
    /\ extra_changes_dirs \in {None, Given(<<RelDir>>)}
    /\ fs = BaseFs @@ CallerFs(TRUE)

\* nothing of union has run yet
InitUnionIdle ==
    /\ fs0 = fs
    /\ fs_pre = fs
    /\ scan_rev \in BOOLEAN
    /\ failed_at = 0
    /\ ret = "none"
    /\ err = "none"
    /\ changes_dirs_ = <<>>
    /\ subdir_i = 1
    /\ new_changes_dirs = <<>>
    /\ temp_dir = <<>>
    /\ dir_i = 1
    /\ change_dir = <<>>
    /\ walk_i = 1
    /\ files_to_apply_tcattr_acl = <<>>
    /\ files_to_apply_default_acl = <<>>
    /\ bases_left = {}
    /\ file_i = 1
    /\ log = <<>>
    /\ store_calls = <<>>
    /\ commit = [rel \in MergedPaths |-> "absent"]
    /\ saa_calls = <<>>
    /\ run = 1

\* set_output_ownership is not running
InitOwnIdle ==
    /\ output_file = <<>>
    /\ set_parents = FALSE
    /\ workdir_uid = 0
    /\ workdir_gid = 0
    /\ examine = <<>>
    /\ examine_i = 1

\* resolve_hostname is not running
InitResolveIdle ==
    /\ hostname = <<>>
    /\ mdns_source = <<>>
    /\ local_ips = <<>>
    /\ ip_i = 1

\* get_own_container_id is not running
InitContainerIdle ==
    /\ containers = <<>>
    /\ env_set = FALSE
    /\ listing = <<>>
    /\ cont_i = 1
    /\ container_id = "None"

\* isolate_subcommand is not running
InitIsolateIdle ==
    /\ args_changes_dir = <<>>
    /\ iso_changes_dir = <<>>
    /\ ans = <<>>

NoValue == [kind |-> "none"]

Init ==
    /\ (InitRich \/ InitDefault \/ InitManual \/ InitNoStorage)
    /\ InitUnionIdle
    /\ InitOwnIdle
    /\ InitResolveIdle
    /\ InitContainerIdle
    /\ InitIsolateIdle
    /\ retval = NoValue
    /\ pc = "start"

Next ==
    \/ UnionStart
    \/ DefaultLoop
    \/ DefaultAppend
    \/ DefaultDone
    \/ MkdirTemp
    \/ Extra
    \/ CaadCheck
    \/ CaadCopy
    \/ CaadAppend
    \/ CaadReturn
    \/ Store
    \/ WalkSkip
    \/ WalkTcattr
    \/ WalkDefault
    \/ apply_tcattr_acl
    \/ apply_tcattr_acl_done
    \/ apply_default_acl
    \/ SetAclReturn

Spec == Init /\ [][Next]_vars

(***************************************************************************)
(* union invoked again, with the same arguments, on the filesystem the     *)
(* invocation before it left behind.                                       *)
(***************************************************************************)
Reinvoke ==
    /\ pc \in {"done", "raised"}
    /\ run < MaxRuns
    /\ run' = run + 1
    /\ pc' = "start"
    /\ err' = "none"
    /\ ret' = "none"
    /\ fs0' = fs
    /\ fs_pre' = fs
    /\ failed_at' = 0
    /\ changes_dirs_' = <<>>
    /\ subdir_i' = 1
    /\ new_changes_dirs' = <<>>
    /\ temp_dir' = <<>>
    /\ dir_i' = 1
    /\ change_dir' = <<>>
    /\ walk_i' = 1
    /\ files_to_apply_tcattr_acl' = <<>>
    /\ files_to_apply_default_acl' = <<>>
    /\ bases_left' = {}
    /\ file_i' = 1
    /\ log' = <<>>
    /\ store_calls' = <<>>
    /\ commit' = [rel \in MergedPaths |-> "absent"]
    /\ saa_calls' = <<>>
    /\ UNCHANGED <<fs, scan_rev, changes_dirs, extra_changes_dirs, ownLocals, restLocals>>

NextTwice == Next \/ Reinvoke

SpecTwice == Init /\ [][NextTwice]_vars

(***************************************************************************)
(* set_acl_attributes called twice in a row on the same change-set.        *)
(***************************************************************************)
ReconcileDir == storage_dir_ \o <<"changes">>

InitReconcile ==
    /\ changes_dirs = None
    /\ extra_changes_dirs = None
    /\ \E ef \in {UserFile(420, "changes"), UserFile(488, "changes"),
                    UserLink("changes")},
          eb \in {UserFile(420, "b"), UserLink("b")},
          rt \in Sidecars(Texts(RootStanzas, MaxStanzas)),
          st \in Sidecars(Texts(SubStanzas, MaxStanzas)) :
         fs = BaseFs @@ StorageFs @@ RichTree(ReconcileDir, ef, eb, rt, st)
    /\ InitUnionIdle
    /\ InitOwnIdle
    /\ InitResolveIdle
    /\ InitContainerIdle
    /\ InitIsolateIdle
    /\ retval = NoValue
    /\ pc = "reconcile"

\* the first call set_acl_attributes(change_dir)
Reconcile ==
    /\ pc = "reconcile"
    /\ CallSetAcl(fs, ReconcileDir, "reconciled")
    /\ UNCHANGED <<fs, inputs, failed_at, err, unionLocals, log, store_calls, commit>>

\* the second call, on what the first one left
Rerun ==
    /\ pc = "reconciled"
    /\ CallSetAcl(fs, change_dir, "reconciled_twice")
    /\ UNCHANGED <<fs, inputs, failed_at, err, unionLocals, log, store_calls, commit>>

NextReconcile ==
    \/ Reconcile
    \/ Rerun
    \/ WalkSkip
    \/ WalkTcattr
    \/ WalkDefault
    \/ apply_tcattr_acl
    \/ apply_tcattr_acl_done
    \/ apply_default_acl
    \/ SetAclReturn

SpecReconcile == InitReconcile /\ [][NextReconcile]_vars

(***************************************************************************)
(* set_output_ownership(output_file, set_parents) and                      *)
(* apply_workdir_ownership (src/tcbuilder/backend/common.py).              *)
(***************************************************************************)
\* the state of union, which set_output_ownership leaves alone
unionState == <<fs0, fs_pre, scan_rev, changes_dirs, extra_changes_dirs, run,
                failed_at, ret, err, unionLocals, change_dir, walk_i,
                files_to_apply_tcattr_acl, files_to_apply_default_acl,
                bases_left, file_i, saa_calls, store_calls, commit, restLocals>>

Workdir == <<"/", "workdir">>

\* os.path.normpath on the paths used here: the "." components go
normpath(p) == SelectSeq(p, LAMBDA c : c # ".")

\* the entry the kernel reaches for the name p
Lookup(p) == AbsPath(normpath(p))

\* get_file_ownership(filename): os.stat(filename, follow_symlinks=False)
get_file_ownership(f, filename) == <<f[Lookup(filename)].uid, f[Lookup(filename)].gid>>

\* lines 595-598: os.sep.join(parts[:num + 1]) for num in range(len(parts) - 1)
ParentParts(p) ==
    LET parts == normpath(p)
    IN  [num \in 1..(Len(parts) - 1) |-> SubSeq(parts, 1, num)]

RECURSIVE WalkNames(_, _, _)
\* lines 602-605: os.path.join(rootdir, filename) for every directory that
\* os.walk(output_file) visits and every filename in directories + filenames
WalkNames(f, top, dirs) ==
    IF dirs = <<>> THEN <<>>
    ELSE LET rootdir == Head(dirs)
             names == DirNames(f, rootdir) \o FileNames(f, rootdir)
             rel == SubSeq(rootdir, Len(Lookup(top)) + 1, Len(rootdir))
         IN  [j \in 1..Len(names) |-> PathJoin(top \o rel, <<names[j]>>)]
             \o WalkNames(f, top, Tail(dirs))

\* the condition of line 562 with the group left out
MutOwnedByRootUid(file_uid, file_gid) == file_uid = 0

\* line 562
OwnedByRoot(file_uid, file_gid) == file_uid = 0 /\ file_gid = 0

\* lines 592-605: the ownership of /workdir is read and the names to
\* examine are the parents (if asked for, and output_file is relative),
\* output_file itself and what os.walk finds below it
set_output_ownership ==
    /\ pc = "own_start"
    /\ workdir_uid' = get_file_ownership(fs, Workdir)[1]
    /\ workdir_gid' = get_file_ownership(fs, Workdir)[2]
    /\ examine' = (IF set_parents /\ ~IsAbs(output_file)
                    THEN ParentParts(output_file) ELSE <<>>)
                   \o <<output_file>>
                   \o WalkNames(fs, output_file, WalkDirs(fs, Lookup(output_file)))
    /\ examine_i' = 1
    /\ pc' = "own_loop"
    /\ UNCHANGED <<fs, log, output_file, set_parents, unionState>>

\* lines 560-563, for the next name to examine
apply_workdir_ownership ==
    /\ pc = "own_loop"
    /\ examine_i <= Len(examine)
    /\ LET filename == examine[examine_i]
           owner == get_file_ownership(fs, filename)
       IN  IF OwnedByRoot(owner[1], owner[2])
           THEN /\ fs' = SetEntry(fs, Lookup(filename),
                                  [fs[Lookup(filename)] EXCEPT !.uid = workdir_uid,
                                                               !.gid = workdir_gid])
                /\ log' = Append(log, LogEntry("chown", Lookup(filename), <<>>, 0))
           ELSE UNCHANGED <<fs, log>>
    /\ examine_i' = examine_i + 1
    /\ UNCHANGED <<pc, output_file, set_parents, workdir_uid, workdir_gid, examine,
                   unionState>>

\* set_output_ownership returns
OwnReturn ==
    /\ pc = "own_loop"
    /\ examine_i > Len(examine)
    /\ pc' = "own_done"
    /\ UNCHANGED <<fs, log, ownLocals, unionState>>

\* an entry of the given kind and owner
Owned(kind, owner) ==
    [MkEntry(kind, owner[1], IF kind = "dir" THEN 493 ELSE 420, <<>>, "")
        EXCEPT !.gid = owner[2]]

\* the owners an output entry may have
Owners == {<<0, 0>>, <<0, 1000>>, <<1000, 0>>, <<1000, 1000>>}

\* the output tree out, out/sub, out/sub/x and the link out/l
OutputTree(o1, o2, o3, o4) ==
    (Cwd \o <<"out">> :> Owned("dir", o1)) @@
    (Cwd \o <<"out", "sub">> :> Owned("dir", o2)) @@
    (Cwd \o <<"out", "sub", "x">> :> Owned("file", o3)) @@
    (Cwd \o <<"out", "l">> :> Owned("link", o4))

\* the names set_output_ownership is called with
OutputFiles ==
    {<<"out">>, <<"out", "sub">>, <<".", "out", "sub", "x">>, <<"out", "l">>,
     Cwd \o <<"out", "sub">>}

InitOwnership ==
    /\ changes_dirs = None
    /\ extra_changes_dirs = None
    /\ \E o1, o2, o3, o4 \in Owners, w \in {<<1000, 1000>>, <<1000, 100>>} :
         fs = BaseFs @@ (Workdir :> Owned("dir", w)) @@ OutputTree(o1, o2, o3, o4)
    /\ InitUnionIdle
    /\ InitResolveIdle
    /\ InitContainerIdle
    /\ InitIsolateIdle
    /\ retval = NoValue
    /\ output_file \in OutputFiles
    /\ set_parents \in BOOLEAN
    /\ workdir_uid = 0
    /\ workdir_gid = 0
    /\ examine = <<>>
    /\ examine_i = 1
    /\ pc = "own_start"

NextOwnership ==
    \/ set_output_ownership
    \/ apply_workdir_ownership
    \/ OwnReturn

SpecOwnership == InitOwnership /\ [][NextOwnership]_vars

(***************************************************************************)
(* resolve_remote_host and resolve_hostname                                *)
(* (src/tcbuilder/backend/common.py).  A host name is the sequence of its  *)
(* dot-separated labels.                                                   *)
(***************************************************************************)
\* what the functions of the other modules leave alone
unionCore == <<fs0, fs_pre, scan_rev, changes_dirs, extra_changes_dirs, run,
               failed_at, ret, err, unionLocals, change_dir, walk_i,
               files_to_apply_tcattr_acl, files_to_apply_default_acl,
               bases_left, file_i, saa_calls, store_calls, commit>>
resolveFrame == <<fs, unionCore, ownLocals, cidLocals, isoLocals>>

Returned(value, mdns) == [kind |-> "return", value |-> value, mdns |-> mdns]
Raised(exc) == [kind |-> "raise", exc |-> exc]

\* hostname.endswith(".local")
EndsWithLocal(h) == Len(h) >= 2 /\ h[Len(h)] = "local"

\* "." in hostname
HasDot(h) == Len(h) >= 2

\* line 296: the names for which a resolver failure is final
NotMdnsCompatible(h) == ~EndsWithLocal(h) /\ HasDot(h)

\* lines 299-302
mdns_hostname(h) == IF EndsWithLocal(h) THEN h ELSE Append(h, "local")

\* ipaddress.ip_address(remote_host) accepts the name
IsIpAddress(h) == Len(h) = 4 /\ \A j \in 1..4 : h[j] \in {"0", "7", "10", "192", "168"}

\* the addresses the resolvers answer with
OsAddress == <<"192", "168", "0", "7">>
MdnsAddress == <<"10", "0", "0", "7">>

\* what a resolver.query call may do
QueryOutcomes == {"answer", "empty", "timeout", "dnserror"}

\* lines 337-343
resolve_remote_host ==
    /\ pc = "rrh_start"
    /\ IF IsIpAddress(hostname)
       THEN retval' = Returned(hostname, FALSE) /\ pc' = "rh_done"
       ELSE pc' = "rh_start" /\ UNCHANGED retval
    /\ UNCHANGED <<log, rhLocals, resolveFrame>>

\* lines 290-297: socket.gethostbyname answers or raises gaierror
gethostbyname ==
    /\ pc = "rh_start"
    /\ log' = Append(log, LogEntry("gethostbyname", hostname, <<>>, 0))
    /\ \/ retval' = Returned(OsAddress, FALSE) /\ pc' = "rh_done"
       \/ IF NotMdnsCompatible(hostname)
          THEN retval' = Raised("TorizonCoreBuilderError") /\ pc' = "rh_done"
          ELSE pc' = "rh_mdns" /\ UNCHANGED retval
    /\ UNCHANGED <<rhLocals, resolveFrame>>

\* lines 308-318: one query from the source given by the caller
QuerySource ==
    /\ pc = "rh_mdns"
    /\ mdns_source # <<>>
    /\ log' = Append(log, LogEntry("query", mdns_hostname(hostname), mdns_source, 0))
    /\ \E outcome \in QueryOutcomes :
          retval' = IF outcome = "answer" THEN Returned(MdnsAddress, TRUE)
                    ELSE IF outcome = "dnserror" THEN Raised("DNSException")
                    ELSE Raised("TorizonCoreBuilderError")
    /\ pc' = "rh_done"
    /\ UNCHANGED <<rhLocals, resolveFrame>>

\* lines 321-329: one query from the next local address
QueryInterface ==
    /\ pc = "rh_mdns"
    /\ mdns_source = <<>>
    /\ ip_i <= Len(local_ips)
    /\ log' = Append(log, LogEntry("query", mdns_hostname(hostname), local_ips[ip_i], 0))
    /\ \E outcome \in QueryOutcomes :
          IF outcome = "timeout"
          THEN ip_i' = ip_i + 1 /\ UNCHANGED <<pc, retval>>
          ELSE /\ retval' = IF outcome = "answer" THEN Returned(MdnsAddress, TRUE)
                            ELSE IF outcome = "dnserror" THEN Raised("DNSException")
                            ELSE Raised("TorizonCoreBuilderError")
               /\ pc' = "rh_done"
               /\ UNCHANGED ip_i
    /\ UNCHANGED <<hostname, mdns_source, local_ips, resolveFrame>>

\* lines 328-332: every interface timed out
QueryAllFailed ==
    /\ pc = "rh_mdns"
    /\ mdns_source = <<>>
    /\ ip_i > Len(local_ips)
    /\ retval' = Raised("TorizonCoreBuilderError")
    /\ pc' = "rh_done"
    /\ UNCHANGED <<log, rhLocals, resolveFrame>>

\* the names asked for
Hostnames ==
    {<<"board">>, <<"board", "local">>, <<"board", "lan">>, <<"local">>,
     <<"board", "local", "lan">>, <<"192", "168", "0", "7">>}

\* the addresses of the interfaces
IfaceAddresses == <<<<"10", "0", "0", "1">>, <<"10", "0", "0", "2">>,
                    <<"10", "0", "0", "3">>, <<"10", "0", "0", "4">>>>

InitResolve ==
    /\ changes_dirs = None
    /\ extra_changes_dirs = None
    /\ fs = BaseFs
    /\ InitUnionIdle
    /\ InitOwnIdle
    /\ InitContainerIdle
    /\ InitIsolateIdle
    /\ retval = NoValue
    /\ hostname \in Hostnames
    /\ mdns_source \in {<<>>, <<"10", "0", "0", "9">>}
    /\ local_ips \in {SubSeq(IfaceAddresses, 1, n) : n \in 0..MaxIfaces}
    /\ ip_i = 1
    /\ pc \in {"rrh_start", "rh_start"}

NextResolve ==
    \/ resolve_remote_host
    \/ gethostbyname
    \/ QuerySource
    \/ QueryInterface
    \/ QueryAllFailed

SpecResolve == InitResolve /\ [][NextResolve]_vars

(***************************************************************************)
(* get_own_container_id (src/tcbuilder/backend/common.py).  An image name  *)
(* is a sequence of tokens; a container is its Id, its image and whether   *)
(* Docker's name filter selects it for the name in the environment.        *)
(***************************************************************************)
containerFrame == <<fs, log, unionCore, ownLocals, rhLocals, isoLocals>>

\* the default of the parameter image_name
image_name == <<"torizoncore-builder">>

\* sub in s, for strings
Contains(sub, s) ==
    \E k \in 0..(Len(s) - Len(sub)) : SubSeq(s, k + 1, k + Len(sub)) = sub

ReturnedId(id) == [kind |-> "return", value |-> id]

\* docker_client.containers.list(filters={"name": container_name})
ListByName(cs) == SelectSeq(cs, LAMBDA c : c.named)

\* lines 433-437 and 450-451: which listing is walked first
ContainerStart ==
    /\ pc = "cid_start"
    /\ container_id' = "None"
    /\ cont_i' = 1
    /\ IF env_set
       THEN listing' = ListByName(containers) /\ pc' = "cid_name_loop"
       ELSE listing' = containers /\ pc' = "cid_image_loop"
    /\ UNCHANGED <<retval, containers, env_set, containerFrame>>

\* lines 437-441: one container of the listing by name
NameLoop ==
    /\ pc = "cid_name_loop"
    /\ cont_i <= Len(listing)
    /\ IF container_id # "None"
       THEN /\ retval' = Raised("AssertionError")
            /\ pc' = "cid_done"
            /\ UNCHANGED <<container_id, cont_i>>
       ELSE /\ container_id' = listing[cont_i].Id
            /\ cont_i' = cont_i + 1
            /\ UNCHANGED <<pc, retval>>
    /\ UNCHANGED <<containers, env_set, listing, containerFrame>>

\* lines 443-451: the name method returns, or the image method starts
NameDone ==
    /\ pc = "cid_name_loop"
    /\ cont_i > Len(listing)
    /\ IF container_id # "None"
       THEN /\ retval' = ReturnedId(container_id)
            /\ pc' = "cid_done"
            /\ UNCHANGED <<container_id, cont_i, listing>>
       ELSE /\ container_id' = "None"
            /\ listing' = containers
            /\ cont_i' = 1
            /\ pc' = "cid_image_loop"
            /\ UNCHANGED retval
    /\ UNCHANGED <<containers, env_set, containerFrame>>

\* lines 451-455: one container of the full listing
ImageLoop ==
    /\ pc = "cid_image_loop"
    /\ cont_i <= Len(listing)
    /\ IF container_id # "None"
       THEN /\ retval' = Raised("AssertionError")
            /\ pc' = "cid_done"
            /\ UNCHANGED <<container_id, cont_i>>
       ELSE /\ container_id' = IF Contains(image_name, listing[cont_i].Image)
                               THEN listing[cont_i].Id
                               ELSE container_id
            /\ cont_i' = cont_i + 1
            /\ UNCHANGED <<pc, retval>>
    /\ UNCHANGED <<containers, env_set, listing, containerFrame>>

\* lines 457-461
ImageDone ==
    /\ pc = "cid_image_loop"
    /\ cont_i > Len(listing)
    /\ retval' = IF container_id # "None" THEN ReturnedId(container_id)
                 ELSE Raised("OperationFailureError")
    /\ pc' = "cid_done"
    /\ UNCHANGED <<cidLocals, containerFrame>>

\* the images of the containers listed
Images ==
    {<<"torizon", "/", "torizoncore-builder", ":", "3">>, <<"torizoncore-builder">>,
     <<"debian", ":", "12">>}

ContainerIds == <<"id1", "id2", "id3", "id4", "id5">>

\* the listings of n containers
Listings(n) ==
    {[j \in 1..n |-> [Id |-> ContainerIds[j], Image |-> imgs[j], named |-> nm[j]]] :
        imgs \in [1..n -> Images], nm \in [1..n -> BOOLEAN]}

InitContainer ==
    /\ changes_dirs = None
    /\ extra_changes_dirs = None
    /\ fs = BaseFs
    /\ InitUnionIdle
    /\ InitOwnIdle
    /\ InitResolveIdle
    /\ InitIsolateIdle
    /\ retval = NoValue
    /\ containers \in UNION {Listings(n) : n \in 0..MaxContainers}
    /\ env_set \in BOOLEAN
    /\ listing = <<>>
    /\ cont_i = 1
    /\ container_id = "None"
    /\ pc = "cid_start"

NextContainer ==
    \/ ContainerStart
    \/ NameLoop
    \/ NameDone
    \/ ImageLoop
    \/ ImageDone

SpecContainer == InitContainer /\ [][NextContainer]_vars

(***************************************************************************)
(* isolate_subcommand (src/tcbuilder/cli/isolate.py).  The answer typed at *)
(* the prompt is the sequence of its characters.                           *)
(***************************************************************************)
isolateFrame == <<unionCore, ownLocals, rhLocals, cidLocals>>

\* str.lower() on one character
LowerChar(c) ==
    IF c = "Y" THEN "y" ELSE IF c = "N" THEN "n"
    ELSE IF c = "E" THEN "e" ELSE IF c = "S" THEN "s" ELSE c

\* str.lower()
Lower(str) == [j \in 1..Len(str) |-> LowerChar(str[j])]

\* any answer but "n" counts as a yes
MutConfirmedUnlessNo(answer) == Lower(answer) # <<"n">>

\* line 26: ans.lower() != "y" returns
Confirmed(answer) == Lower(answer) = <<"y">>

\* os.listdir(d)
listdir(f, d) == {q \in DOMAIN f : Len(q) = Len(d) + 1 /\ IsPrefix(d, q)}

\* shutil.rmtree(d) followed by os.mkdir(d)
RmtreeMkdir(f, d) ==
    [q \in {r \in DOMAIN f : ~Under(d, r)} |->
        IF q = d THEN MkEntry("dir", root_uid, default_dir_mode, <<>>, "") ELSE f[q]]

\* isolate.isolate_user_changes(changes_dir, ...): the capture puts the
\* files changed on the device below changes_dir
isolate_user_changes(f, d) ==
    SetEntry(f, d \o <<"f">>, MkEntry("file", root_uid, 420, <<>>, "captured"))

\* lines 13-22: the changes directory is chosen; the default one is
\* created if missing, a missing explicit one ends the command
IsolateStart ==
    /\ pc = "iso_start"
    /\ IF args_changes_dir = <<>>
       THEN LET d == PathJoin(storage_dir_, <<"changes">>) IN
            /\ iso_changes_dir' = d
            /\ IF Exists(fs, d)
               THEN pc' = "iso_listdir" /\ UNCHANGED <<fs, log, retval>>
               ELSE IF ~Exists(fs, storage_dir_)
               THEN /\ retval' = Raised("FileNotFoundError")
                    /\ pc' = "iso_done"
                    /\ UNCHANGED <<fs, log>>
               ELSE /\ fs' = SetEntry(fs, d, MkEntry("dir", root_uid, default_dir_mode,
                                                      <<>>, ""))
                    /\ log' = Append(log, LogEntry("mkdir", d, <<>>, 0))
                    /\ pc' = "iso_listdir"
                    /\ UNCHANGED retval
       ELSE /\ iso_changes_dir' = AbsPath(args_changes_dir)
            /\ pc' = IF Exists(fs, args_changes_dir) THEN "iso_listdir" ELSE "iso_done"
            /\ UNCHANGED <<fs, log, retval>>
    /\ UNCHANGED <<args_changes_dir, ans, isolateFrame>>

\* lines 24-27: a directory with entries brings the prompt
IsolatePrompt ==
    /\ pc = "iso_listdir"
    /\ listdir(fs, iso_changes_dir) # {}
    /\ \E answer \in {<<>>, <<"y">>, <<"Y">>, <<"n">>, <<"N">>, <<"y", "e", "s">>,
                       <<"Y", "E", "S">>, <<" ", "y">>} :
          /\ ans' = answer
          /\ pc' = IF Confirmed(answer) THEN "iso_delete" ELSE "iso_done"
    /\ log' = Append(log, LogEntry("input", iso_changes_dir, <<>>, 0))
    /\ UNCHANGED <<fs, retval, args_changes_dir, iso_changes_dir, isolateFrame>>

\* line 24: an empty directory needs no prompt
IsolateEmpty ==
    /\ pc = "iso_listdir"
    /\ listdir(fs, iso_changes_dir) = {}
    /\ pc' = "iso_capture"
    /\ UNCHANGED <<fs, log, retval, isoLocals, isolateFrame>>

\* lines 29-30
IsolateDelete ==
    /\ pc = "iso_delete"
    /\ fs' = RmtreeMkdir(fs, iso_changes_dir)
    /\ log' = Append(log, LogEntry("rmtree", iso_changes_dir, <<>>, 0))
    /\ pc' = "iso_capture"
    /\ UNCHANGED <<retval, isoLocals, isolateFrame>>

\* lines 32-44: the remote host is resolved and the capture runs; a
\* TorizonCoreBuilderError of either is logged, not raised
IsolateCapture ==
    /\ pc = "iso_capture"
    /\ \/ /\ log' = Append(log, LogEntry("resolve", <<>>, <<>>, 0))
          /\ UNCHANGED fs
       \/ /\ log' = log \o <<LogEntry("resolve", <<>>, <<>>, 0),
                              LogEntry("capture", iso_changes_dir, <<>>, 0)>>
          /\ \/ fs' = isolate_user_changes(fs, iso_changes_dir)
             \/ UNCHANGED fs
    /\ pc' = "iso_done"
    /\ UNCHANGED <<retval, isoLocals, isolateFrame>>

\* an empty directory the caller may name
EmptyDir == <<"empty">>

\* the storage directory: missing, without changes, with an empty one,
\* with one that holds a file
IsolateStorage ==
    {EmptyFs, StorageFs,
     StorageFs @@ (storage_dir_ \o <<"changes">> :> UserDir),
     StorageFs @@ SmallTree(storage_dir_ \o <<"changes">>, "changes", FALSE),
     StorageFs @@ SmallTree(storage_dir_ \o <<"changes">>, "changes", TRUE)}

InitIsolate ==
    /\ changes_dirs = None
    /\ extra_changes_dirs = None
    /\ \E st \in IsolateStorage, sidecar \in BOOLEAN :
         fs = BaseFs @@ st @@ CallerFs(sidecar) @@ (AbsPath(EmptyDir) :> UserDir)
    /\ InitUnionIdle
    /\ InitOwnIdle
    /\ InitResolveIdle
    /\ InitContainerIdle
    /\ retval = NoValue
    /\ args_changes_dir \in {<<>>, RelDir, AbsDir, MissingDir, EmptyDir}
    /\ iso_changes_dir = <<>>
    /\ ans = <<>>
    /\ pc = "iso_start"

NextIsolate ==
    \/ IsolateStart
    \/ IsolatePrompt
    \/ IsolateEmpty
    \/ IsolateDelete
    \/ IsolateCapture

SpecIsolate == InitIsolate /\ [][NextIsolate]_vars

(***************************************************************************)
(* Vocabulary of the properties.                                           *)
(***************************************************************************)
\* set_acl_attributes(change_dir) has returned and nothing ran since
JustReconciled == ret # "none" /\ pc = ret

Parent(p) == SubSeq(p, 1, Len(p) - 1)
LastName(p) == p[Len(p)]

\* the paths below change_dir
ChangeSetPaths(f) == {p \in DOMAIN f : Under(change_dir, p)}

\* the directories below (or at) change_dir that hold a sidecar
SidecarBases(f) == {Parent(q) : q \in {r \in ChangeSetPaths(f) : LastName(r) = ".tcattr"}}

\* the records <<path, ACL>> of the sidecar text t found in base_dir
StanzaRecords(base_dir, t) ==
    {<<AbsPath(PathJoin(base_dir, t[j].p)), t[j + 1].v>> :
        j \in {n \in 1..(Len(t) - 1) : t[n].t = "file" /\ t[n + 1].t = "acl"}}

\* the records of every sidecar of the change-set
Records(f) == UNION {StanzaRecords(b, f[TcattrPath(b)].text) : b \in SidecarBases(f)}

HasRecord(p) == \E r \in Records(fs_pre) : r[1] = p

\* the outcome of the default policy for p: 0o755 = 493, 0o770 = 504,
\* 0o660 = 432, 0o111 = 73
DefaultOutcome(p) ==
    /\ fs[p].uid = 0
    /\ fs[p].gid = 0
    /\ fs[p].kind = "dir" => fs[p].mode = 493
    /\ fs[p].kind = "file" =>
           fs[p].mode = IF BitAnd(fs_pre[p].mode, 73) # 0 THEN 504 ELSE 432
    /\ fs[p].kind = "link" => fs[p].mode = fs_pre[p].mode

LogHas(op, p) == \E j \in 1..Len(log) : log[j].op = op /\ AbsPath(log[j].path) = p

(***************************************************************************)
(* C1                                                                      *)
(***************************************************************************)
\* C1 as stated: after set_acl_attributes(change_dir) completes, every path
\* under change_dir that has no sidecar record has the default policy
\* outcome (directory 0755, executable file 0770, other file 0660, link
\* mode untouched) and is owned by uid 0 / gid 0.
C1_EveryPathDefault ==
    JustReconciled =>
        \A p \in ChangeSetPaths(fs) : ~HasRecord(p) => DefaultOutcome(p)

\* C1, amended: after set_acl_attributes(change_dir) completes, every path
\* under change_dir other than the .tcattr sidecar files themselves that
\* has no sidecar record has the default policy outcome and is owned by
\* uid 0 / gid 0.
C1_DefaultPolicy ==
    JustReconciled =>
        \A p \in ChangeSetPaths(fs) :
            (LastName(p) # ".tcattr" /\ ~HasRecord(p)) => DefaultOutcome(p)

\* a 0644 file became 0660 and a 0750 file became 0770, neither recorded
C1_Witness ==
    /\ JustReconciled
    /\ \E p, q \in ChangeSetPaths(fs) :
          /\ ~HasRecord(p) /\ ~HasRecord(q)
          /\ fs_pre[p].kind = "file" /\ fs_pre[p].mode = 420 /\ fs[p].mode = 432
          /\ LastName(p) # ".tcattr" /\ LastName(q) # ".tcattr"
          /\ fs_pre[q].kind = "file" /\ fs_pre[q].mode = 488 /\ fs[q].mode = 504
          /\ fs_pre[p].uid = 1000 /\ fs[p].uid = 0 /\ fs[q].uid = 0

(***************************************************************************)
(* C2                                                                      *)
(***************************************************************************)
\* C2: for every non-symlink path listed in a .tcattr anywhere in the
\* change-set tree, after set_acl_attributes the path's ACL equals the ACL
\* recorded for it, and no default mode was applied to it.
C2_RecordedAclRestored ==
    JustReconciled =>
        \A r \in Records(fs_pre) :
            (Exists(fs_pre, r[1]) /\ ~IsLink(fs_pre, r[1])) =>
                fs[r[1]].mode = r[2] /\ ~LogHas("chmod", r[1])

(***************************************************************************)
(* C3                                                                      *)
(***************************************************************************)
\* the symbolic links that a raw sidecar of the change-set names
RawLinkTargets == {p \in {r[1] : r \in Records(fs_pre)} : IsLink(fs_pre, p)}

\* C3: for every stanza of a raw .tcattr whose target is a symbolic link,
\* the stanza is absent from the rewritten sidecar, the link is not among
\* the paths whose ACL is restored, no chmod is issued on the link, and the
\* link is chowned (without being followed) by the time the call returns.
C3_LinksDropped ==
    ret # "none" =>
        \A p \in RawLinkTargets :
            /\ \A j \in 1..Len(log) :
                  (log[j].op = "rewrite" /\ Under(change_dir, log[j].path)) =>
                      \A l \in Range(fs[log[j].path].text) :
                          l.t = "file" =>
                              AbsPath(PathJoin(Parent(log[j].path), l.p)) # p
            /\ p \notin {AbsPath(PathJoin(t[1], t[2])) :
                            t \in Range(files_to_apply_tcattr_acl)}
            /\ ~LogHas("restore", p)
            /\ ~LogHas("chmod", p)
            /\ JustReconciled =>
                  /\ LogHas("chown", p)
                  /\ fs[p].uid = 0 /\ fs[p].gid = 0
                  /\ fs[p].mode = fs_pre[p].mode

\* a reconcile completed on a change-set whose raw sidecar named a link
C3_Witness ==
    /\ JustReconciled
    /\ \E p \in RawLinkTargets :
          /\ LogHas("chown", p)
          /\ LogHas("rewrite", TcattrPath(Parent(p)))
          /\ LogHas("setfacl", change_dir)

(***************************************************************************)
(* C4                                                                      *)
(***************************************************************************)
\* C4: in manual mode every supplied directory, relative or absolute, is
\* copied into the staging area and only the staged copy is reconciled:
\* nothing the caller supplied changes, and the store is handed staged
\* copies only.
C4_CallerDirsUntouched ==
    changes_dirs.given =>
        /\ \A p \in DOMAIN fs0 : p \in DOMAIN fs /\ fs[p] = fs0[p]
        /\ \A j \in 1..Len(changes_dirs_) :
              Under(TempDirPrimary, changes_dirs_[j]) \/ Under(TempDirExtra, changes_dirs_[j])

(***************************************************************************)
(* C5                                                                      *)
(***************************************************************************)
\* an operation on a supplied directory or on its staged copy
TouchesSupplied(e) ==
    \/ e.op \in {"makedirs", "cp"}
    \/ \E d \in {TempDirPrimary, TempDirExtra, AbsPath(RelDir), AbsDir} :
          Under(d, AbsPath(e.path))

\* C5: when a directory named in changes_dirs or extra_changes_dirs does
\* not exist, union raises the path-not-found error before any supplied
\* directory has been copied, staged or reconciled.
C5_ValidateBeforeWork ==
    (pc = "raised" /\ err = "PathNotExistError") =>
        \A j \in 1..Len(log) : ~TouchesSupplied(log[j])

(***************************************************************************)
(* C6                                                                      *)
(***************************************************************************)
\* the content that identifies the change-set directory d
SourceTag(f, d) == f[AbsPath(d) \o <<"f">>].data

TagsOf(f, dirs) == [j \in 1..Len(dirs) |-> SourceTag(f, dirs[j])]

\* the conventional directories that exist, in their fixed order
PresentSubdirs ==
    LET present == SelectSeq(Subdirs, LAMBDA s : IsDir(fs0, storage_dir_ \o <<s>>))
    IN  [j \in 1..Len(present) |-> storage_dir_ \o <<present[j]>>]

\* the change-sets in precedence order: primary, then extra
ExpectedOrder ==
    (IF changes_dirs.given THEN TagsOf(fs0, changes_dirs.dirs)
     ELSE TagsOf(fs0, PresentSubdirs))
    \o TagsOf(fs0, extra_changes_dirs.dirs)

\* C6: the list handed to the store is the primary change-sets in order
\* followed by the extra change-sets in order, in both modes; so a path
\* present in several change-sets comes out of a later-wins merge as the
\* version of the last of them in that order.
C6_StoreOrder ==
    store_calls # <<>> =>
        /\ TagsOf(fs, store_calls[1]) = ExpectedOrder
        /\ (pc = "done" /\ ExpectedOrder # <<>>) =>
              commit[<<"f">>] = ExpectedOrder[Len(ExpectedOrder)]

\* two primary change-sets and an extra one reached the store
C6_Witness ==
    /\ pc = "done"
    /\ changes_dirs.given
    /\ Len(store_calls[1]) = 3
    /\ ExpectedOrder = <<"abs", "present", "abs">>
    /\ commit[<<"f">>] = "abs"

(***************************************************************************)
(* C7                                                                      *)
(***************************************************************************)
UnreconciledSubdirs == {storage_dir_ \o <<s>> : s \in {"splash", "dt", "kernel"}}

\* C7: in default mode the primary list is the existing ones of changes,
\* splash, dt, kernel in that order, and set_acl_attributes runs on
\* changes only: nothing is done to splash, dt or kernel.
C7_DefaultMode ==
    ~changes_dirs.given =>
        /\ \A j \in 1..Len(log), d \in UnreconciledSubdirs :
              ~IsPrefix(d, AbsPath(log[j].path))
        /\ \A p \in DOMAIN fs0, d \in UnreconciledSubdirs :
              IsPrefix(d, p) => fs[p] = fs0[p]
        /\ pc = "extra" =>
              /\ changes_dirs_ = PresentSubdirs
              /\ IsDir(fs0, storage_dir_ \o <<"changes">>) =>
                    /\ ret = "default_append"
                    /\ change_dir = storage_dir_ \o <<"changes">>
                    /\ \E j \in 1..Len(log) :
                          IsPrefix(change_dir, AbsPath(log[j].path))
        /\ store_calls # <<>> =>
              SubSeq(store_calls[1], 1, Len(PresentSubdirs)) = PresentSubdirs

\* all four conventional directories exist and the primary list is built
C7_Witness ==
    /\ ~changes_dirs.given
    /\ pc = "extra"
    /\ Len(changes_dirs_) = 4
    /\ LogHas("chown", storage_dir_ \o <<"changes", "f">>)

(***************************************************************************)
(* C8                                                                      *)
(***************************************************************************)
\* C8: if the storage directory does not exist, union raises
\* PathNotExistError before creating a staging directory, copying a
\* change-set, changing any metadata or calling the store.
C8_StorageMissing ==
    storage_dir_ \notin DOMAIN fs0 =>
        /\ pc \in {"start", "raised"}
        /\ pc = "raised" => err = "PathNotExistError"
        /\ log = <<>>
        /\ fs = fs0
        /\ store_calls = <<>>

\* union raised on a missing storage directory in manual mode
C8_Witness ==
    /\ storage_dir_ \notin DOMAIN fs0
    /\ pc = "raised"
    /\ err = "PathNotExistError"
    /\ changes_dirs.given
    /\ changes_dirs.dirs # <<>>

(***************************************************************************)
(* C9                                                                      *)
(***************************************************************************)
\* some sidecar of the change-set holds a stanza without its marker line
HasMalformed(f) ==
    \E b \in SidecarBases(f) :
        \E piece \in Range(SplitStanzas(f[TcattrPath(b)].text, 1, <<>>)) :
            piece # <<>> /\ piece[1].t # "file"

\* C9: if a .tcattr holds a stanza that lacks the "# file: <path>" marker,
\* the reconciliation of that change-set fails with an error, and no ACL
\* and no default permission of that change-set is applied.
C9_MalformedIsFatal ==
    (ret # "none" /\ HasMalformed(fs_pre)) =>
        /\ ~JustReconciled
        /\ \A j \in 1..Len(log) :
              Under(change_dir, AbsPath(log[j].path)) =>
                  log[j].op \notin {"restore", "chown", "chmod"}

(***************************************************************************)
(* C10                                                                     *)
(***************************************************************************)
MetadataOps == {"setfacl", "restore", "chown", "chmod"}

\* C10: when an ACL restore, chown or chmod fails during
\* set_acl_attributes, no later operation is issued, the error leaves
\* union, and the store is not called.
C10_FailFast ==
    (failed_at # 0 /\ log[failed_at].op \in MetadataOps) =>
        /\ pc = "raised"
        /\ err \in {"CalledProcessError", "OSError"}
        /\ Len(log) = failed_at
        /\ store_calls = <<>>

\* a chown failed while files were still waiting for their default mode
C10_Witness ==
    /\ failed_at # 0
    /\ log[failed_at].op = "chown"
    /\ pc = "raised"
    /\ file_i < Len(files_to_apply_default_acl)
    /\ LogHas("setfacl", change_dir)

(***************************************************************************)
(* C11                                                                     *)
(***************************************************************************)
\* the number of bulk copies issued so far
CpCount == Cardinality({j \in 1..Len(log) : log[j].op = "cp"})

\* the directories default mode put on the list before any staging
DefaultListed == IF changes_dirs.given THEN 0 ELSE Len(PresentSubdirs)

\* the reconcile default mode ran before any staging
DefaultReconciled ==
    IF ~changes_dirs.given /\ IsDir(fs0, storage_dir_ \o <<"changes">>) THEN 1 ELSE 0

\* C11: when the bulk copy of a change-set into the staging area fails,
\* union aborts with an error: set_acl_attributes is not invoked on that
\* change-set, the change-set is not appended to the list, no later
\* change-set is processed and the store merge is not called.
C11_StagingFailure ==
    (failed_at # 0 /\ log[failed_at].op = "cp") =>
        /\ pc = "raised"
        /\ err = "CalledProcessError"
        /\ Len(log) = failed_at
        /\ Len(saa_calls) = DefaultReconciled + CpCount - 1
        /\ Len(changes_dirs_) = DefaultListed + CpCount - 1
        /\ store_calls = <<>>

\* the copy of the first of two supplied change-sets failed halfway
C11_Witness ==
    /\ failed_at # 0
    /\ log[failed_at].op = "cp"
    /\ pc = "raised"
    /\ dir_i = 1
    /\ Len(new_changes_dirs) = 2
    /\ saa_calls = <<>>
    /\ \E p \in DOMAIN fs : Under(TempDirPrimary \o RelDir, p)

(***************************************************************************)
(* C12                                                                     *)
(***************************************************************************)
\* owner, group and mode (the ACL) of an entry
Metadata(e) == <<e.uid, e.gid, e.mode>>

\* C12: running set_acl_attributes a second time on a change-set it has
\* already reconciled leaves the owner, group, mode and ACL of every path
\* as they were after the first run (fs_pre is the filesystem the second
\* call started from).
C12_Idempotent ==
    (pc = "reconciled_twice") =>
        /\ DOMAIN fs = DOMAIN fs_pre
        /\ \A p \in DOMAIN fs : Metadata(fs[p]) = Metadata(fs_pre[p])

\* both runs restored ACLs and applied defaults, and the first one
\* changed a mode and an owner
C12_Witness ==
    /\ pc = "reconciled_twice"
    /\ Len(saa_calls) = 2
    /\ Cardinality({j \in 1..Len(log) : log[j].op = "restore"}) = 2
    /\ Cardinality({j \in 1..Len(log) : log[j].op = "chmod"}) >= 4
    /\ \E p \in DOMAIN fs0 : fs0[p].mode # fs[p].mode /\ fs0[p].uid # fs[p].uid

(***************************************************************************)
(* C13                                                                     *)
(***************************************************************************)
\* the directories whose sidecar remove_links_from_tcattr has rewritten
RewrittenBases == {Parent(log[j].path) : j \in {n \in 1..Len(log) : log[n].op = "rewrite"}}

\* the text of base_dir's sidecar after one more remove_links_from_tcattr
RewrittenAgain(base_dir) == remove_links_from_tcattr(fs, base_dir)[TcattrPath(base_dir)].text

\* the stanzas of a sidecar text
StanzasOf(text) == SelectSeq(SplitStanzas(text, 1, <<>>), LAMBDA piece : piece # <<>>)

\* C13 as stated: applying remove_links_from_tcattr to a sidecar it has
\* already rewritten produces a sidecar with identical content (same
\* stanzas, same text).
C13_SameText ==
    \A b \in RewrittenBases : RewrittenAgain(b) = fs[TcattrPath(b)].text

\* C13, amended: applying remove_links_from_tcattr to a sidecar it has
\* already rewritten keeps the stanzas and the record set as they are, and
\* the text is the old text with one more blank line at its end.
C13_SameStanzas ==
    \A b \in RewrittenBases :
        /\ StanzasOf(RewrittenAgain(b)) = StanzasOf(fs[TcattrPath(b)].text)
        /\ TcattrFiles(remove_links_from_tcattr(fs, b), b) = TcattrFiles(fs, b)
        /\ RewrittenAgain(b) = fs[TcattrPath(b)].text \o <<Blank>>

\* a sidecar was rewritten twice: the first rewrite dropped a link's stanza
\* and kept another, the second added a blank line
C13_Witness ==
    /\ pc = "reconciled_twice"
    /\ \E b \in RewrittenBases :
          /\ Len(StanzasOf(fs0[TcattrPath(b)].text)) = 2
          /\ Len(StanzasOf(fs[TcattrPath(b)].text)) = 1
          /\ fs[TcattrPath(b)].text = fs_pre[TcattrPath(b)].text \o <<Blank>>

(***************************************************************************)
(* C14                                                                     *)
(***************************************************************************)
\* the paths whose ACL comes from a sidecar, and those given the defaults
ExplicitSet == {AbsPath(PathJoin(t[1], t[2])) : t \in Range(files_to_apply_tcattr_acl)}
DefaultSet == {AbsPath(q) : q \in Range(files_to_apply_default_acl)}

\* set_acl_attributes has built its two lists
ListsBuilt == pc \in {"apply_tcattr", "apply_default"} \/ JustReconciled

\* C14: every path of the change-set, the change-set root directory
\* included, is in exactly one of the two lists of set_acl_attributes:
\* none is in both and none is in neither.
C14_Partition ==
    ListsBuilt =>
        \A p \in ChangeSetPaths(fs) \cup {AbsPath(change_dir)} :
            (p \in ExplicitSet) # (p \in DefaultSet)

(***************************************************************************)
(* C15                                                                     *)
(***************************************************************************)
\* C15: after set_acl_attributes(change_dir) completes, every path in the
\* subtree, those with a sidecar record included, is owned by uid 0 /
\* gid 0.
C15_AllRootOwned ==
    JustReconciled =>
        \A p \in ChangeSetPaths(fs) : fs[p].uid = root_uid /\ fs[p].gid = root_gid

(***************************************************************************)
(* C16                                                                     *)
(***************************************************************************)
\* C16: within one reconcile, every chown comes before the first ACL
\* restore and before the first chmod.
C16_ChownFirst ==
    Len(saa_calls) = 1 =>
        \A i, j \in 1..Len(log) :
            (i < j /\ log[i].op \in {"restore", "chmod"}) => log[j].op # "chown"

(***************************************************************************)
(* C19                                                                     *)
(***************************************************************************)
\* the setfacl --restore runs made in the directory b
RestoresIn(b) == {j \in 1..Len(log) : log[j].op = "setfacl" /\ AbsPath(log[j].path) = b}

\* the directories whose sidecar, once its links are dropped, still names
\* a path
NamingBases(f) ==
    {b \in SidecarBases(f) : TcattrFiles(remove_links_from_tcattr(f, b), b) # <<>>}

\* C19: during set_acl_attributes, setfacl --restore is run exactly once
\* for each .tcattr found in the change-set tree: with k sidecars in k
\* directories, exactly k restores run, one per sidecar's directory.
\* (Checked for the sidecars that name a path; one that names none has
\* nothing to restore.)
C19_OneRestorePerSidecar ==
    (JustReconciled /\ Len(saa_calls) = 1) =>
        /\ \A b \in NamingBases(fs_pre) : Cardinality(RestoresIn(b)) = 1
        /\ Cardinality({j \in 1..Len(log) : log[j].op = "setfacl"})
               = Cardinality(NamingBases(fs_pre))

(***************************************************************************)
(* C17                                                                     *)
(***************************************************************************)
\* the number of change-sets the caller supplied
SuppliedCount ==
    (IF changes_dirs.given THEN Len(changes_dirs.dirs) ELSE 0)
    + Len(extra_changes_dirs.dirs)

\* every reconcile that was started has run to its end
ReconcilesFinished ==
    saa_calls # <<>> =>
        /\ pc \notin {"saa_walk1", "apply_tcattr", "apply_default"}
        /\ bases_left = {}
        /\ file_i > Len(files_to_apply_default_acl)

\* C17: change-sets are processed strictly one after another (when a
\* change-set is examined, every earlier one has been staged, reconciled
\* to the end and listed), the store merge is called at most once and only
\* after every change-set was staged and reconciled without a failure, and
\* a failed merge leaves union as an error with no second merge call.
C17_Sequential ==
    /\ Len(store_calls) <= 1
    /\ pc \in {"caad_loop", "caad_cp"} =>
          /\ Len(changes_dirs_) = DefaultListed + CpCount
          /\ Len(saa_calls) = DefaultReconciled + CpCount
          /\ ReconcilesFinished
    /\ store_calls # <<>> =>
          /\ pc \in {"done", "raised"}
          /\ pc = "raised" => err = "StoreError"
          /\ failed_at = 0
          /\ store_calls[1] = changes_dirs_
          /\ Len(changes_dirs_) = DefaultListed + SuppliedCount
          /\ CpCount = SuppliedCount
          /\ Len(saa_calls) = DefaultReconciled + SuppliedCount
          /\ ReconcilesFinished

\* the merge of three staged change-sets failed
C17_Witness ==
    /\ pc = "raised"
    /\ err = "StoreError"
    /\ Len(store_calls) = 1
    /\ Len(store_calls[1]) = 3
    /\ Len(saa_calls) = 3
    /\ CpCount = 3

(***************************************************************************)
(* C18                                                                     *)
(***************************************************************************)
\* this invocation was given change-sets to stage
StagesSomething ==
    (changes_dirs.given /\ changes_dirs.dirs # <<>>) \/ extra_changes_dirs.dirs # <<>>

\* C18: an invocation of union that stages change-sets creates its
\* staging directory fresh, so an invocation that follows a completed or
\* failed one stages and reconciles its change-sets as the first did:
\* it is never stopped by the staging directory the earlier one left.
C18_FreshStaging ==
    (run > 1 /\ StagesSomething /\ pc = "raised") =>
        ~(err = "FileExistsError" /\ CpCount = 0)

(***************************************************************************)
(* C20                                                                     *)
(***************************************************************************)
\* the entries apply_workdir_ownership has examined so far
Examined == {Lookup(examine[j]) : j \in 1..(examine_i - 1)}

\* output_file, what lies below it and, if asked for and output_file is
\* relative, the directories between the working directory and it
ToExamine ==
    {Lookup(output_file)}
    \cup {p \in DOMAIN fs : Under(Lookup(output_file), p)}
    \cup (IF set_parents /\ ~IsAbs(output_file)
          THEN {p \in DOMAIN fs : Under(Cwd, p) /\ Under(p, Lookup(output_file))}
          ELSE {})

\* C20: set_output_ownership gives the owner and group of /workdir to
\* output_file, to the files and directories below it and, with
\* set_parents and a relative path, to each parent component, but only to
\* those owned by uid 0 and gid 0 when examined; every other entry keeps
\* its owner and group.
C20_OnlyRootOwned ==
    pc \in {"own_loop", "own_done"} =>
        /\ \A p \in DOMAIN fs :
              <<fs[p].uid, fs[p].gid>> =
                  IF p \in Examined /\ fs0[p].uid = 0 /\ fs0[p].gid = 0
                  THEN <<fs0[Workdir].uid, fs0[Workdir].gid>>
                  ELSE <<fs0[p].uid, fs0[p].gid>>
        /\ Examined \subseteq ToExamine
        /\ pc = "own_done" => Examined = ToExamine

\* with set_parents, a root-owned parent, a root-owned file below
\* out/sub and out/sub itself were handed over, and an entry owned by
\* uid 0 with another group was left alone
C20_Witness ==
    /\ pc = "own_done"
    /\ set_parents
    /\ output_file = <<"out", "sub">>
    /\ fs0[Cwd \o <<"out">>].uid = 0 /\ fs[Cwd \o <<"out">>].uid = 1000
    /\ fs0[Cwd \o <<"out", "sub", "x">>].uid = 0
    /\ fs[Cwd \o <<"out", "sub", "x">>].gid = 100
    /\ fs0[Cwd \o <<"out", "sub">>] = Owned("dir", <<0, 1000>>)
    /\ fs[Cwd \o <<"out", "sub">>] = fs0[Cwd \o <<"out", "sub">>]
    /\ fs[Cwd \o <<"out", "l">>] = fs0[Cwd \o <<"out", "l">>]

(***************************************************************************)
(* C21                                                                     *)
(***************************************************************************)
\* the mDNS queries made so far
QueriesMade == {j \in 1..Len(log) : log[j].op = "query"}

\* the resolver was asked first, and mDNS only for a name that ends in
\* .local or has no dot
ResolverFirst ==
    QueriesMade # {} =>
        /\ log[1].op = "gethostbyname"
        /\ 1 \notin QueriesMade
        /\ EndsWithLocal(hostname) \/ ~HasDot(hostname)

\* C21: resolve_hostname asks the operating system's resolver first and
\* falls back to mDNS only when the name ends with ".local" or has no
\* dot; if the name resolves by neither method, it returns the original
\* hostname rather than failing.
C21_ReturnsOriginal ==
    /\ ResolverFirst
    /\ (pc = "rh_done" /\ log # <<>>) =>
          /\ retval.kind = "return"
          /\ retval.value \in {OsAddress, MdnsAddress, hostname}

(***************************************************************************)
(* C22                                                                     *)
(***************************************************************************)
\* the listed containers whose image name contains image_name
ImageMatches == {j \in 1..Len(containers) : Contains(image_name, containers[j].Image)}

\* the name method finds nothing
NameMethodMisses == ~env_set \/ ListByName(containers) = <<>>

\* C22: when the container-name variable is unset or matches nothing and
\* exactly one listed container has an image name containing image_name,
\* get_own_container_id returns that container's ID wherever it stands in
\* the listing and however many other containers are listed; the "Found
\* more than one" assertion fails only when two or more containers match.
C22_UniqueMatchFound ==
    (pc = "cid_done" /\ NameMethodMisses) =>
        /\ Cardinality(ImageMatches) = 1 =>
              retval = ReturnedId(containers[CHOOSE j \in ImageMatches : TRUE].Id)
        /\ retval = Raised("AssertionError") => Cardinality(ImageMatches) >= 2

(***************************************************************************)
(* C23                                                                     *)
(***************************************************************************)
\* what the changes directory held when the command started
IsolateContents == {p \in DOMAIN fs0 : Under(iso_changes_dir, p)}

\* C23: isolate_subcommand deletes the contents of a non-empty changes
\* directory only if the answer to the prompt is "y" or "Y"; on any
\* other answer it returns with the contents unchanged and no capture
\* started; and when an explicitly given changes directory does not
\* exist it returns without creating it and without starting a capture.
C23_NoDeleteWithoutYes ==
    /\ pc # "iso_start" =>
          /\ (\E p \in IsolateContents : p \notin DOMAIN fs \/ fs[p] # fs0[p])
                => ans \in {<<"y">>, <<"Y">>}
          /\ (LogHas("input", iso_changes_dir) /\ ans \notin {<<"y">>, <<"Y">>}) =>
                /\ pc = "iso_done"
                /\ fs = fs0
                /\ ~LogHas("rmtree", iso_changes_dir)
                /\ ~LogHas("capture", iso_changes_dir)
    /\ (args_changes_dir # <<>> /\ ~Exists(fs0, args_changes_dir)) =>
          /\ pc \in {"iso_start", "iso_done"}
          /\ fs = fs0
          /\ log = <<>>

\* the answer "yes" to the prompt for a directory with two entries: the
\* command returned and the entries are as they were
C23_Witness ==
    /\ pc = "iso_done"
    /\ LogHas("input", iso_changes_dir)
    /\ ans = <<"y", "e", "s">>
    /\ Cardinality(IsolateContents) = 2
    /\ \A p \in IsolateContents : p \in DOMAIN fs /\ fs[p] = fs0[p]

====
